---- MODULE Spec2Model ----
(***************************************************************************)
(* project-brain: the retrieval engine of src/src/rag_pipeline.py          *)
(* (RAGPipeline: file scan, chunker, incremental index, search, ask) and   *)
(* the request loop of src/src/mcp_server.py that drives it.               *)
(*                                                                         *)
(* Paths are sequences of components; str(Path) and Path(str) are the      *)
(* join/split of the components and are one-to-one on them.                *)
(* A line of a file is a natural number: 0 is a blank (whitespace-only)    *)
(* line, any other number a non-blank line.                                *)
(***************************************************************************)
EXTENDS Integers, Sequences, FiniteSets, TLC

VARIABLES
    fs,             \* the file system under the project: resolved path -> file state
    index_file,     \* <db>/index.json   (path -> hash)
    chunks_file,    \* <db>/chunks.json  (list of chunks)
    summary_file,   \* <db>/summary.json
    project_path,   \* config["project_path"]
    _chunk_size,    \* config indexing.chunk_size
    _chunk_overlap, \* config indexing.chunk_overlap
    rag,            \* per process: is MCPServer.rag / the CLI's rag constructed
    pc,             \* per process: position inside the running operation
    _index,         \* per process: RAGPipeline._index
    _chunks,        \* per process: RAGPipeline._chunks
    loc,            \* per process: the locals of the running operation
    result,         \* per process: what the last finished call returned
    settled,        \* history: root of the last completed index() run since whose
                    \* start no file was created, modified or deleted (or NoPath)
    fn,             \* argument/result cell of the pure-function specifications
    dropped         \* history: the chunks (without embedding) that a completed run left
                    \* out because their embedding call failed, of files not touched
                    \* since and not embedded since

vars == <<fs, index_file, chunks_file, summary_file, project_path, _chunk_size,
          _chunk_overlap, rag, pc, _index, _chunks, loc, result, settled, fn, dropped>>

-----------------------------------------------------------------------------
(* Bounds *)

\* lines of the longest file handed to the chunker on its own
MaxLines == 6
\* largest chunk size handed to the chunker on its own
MaxChunkSize == 3
\* chunks of the largest stored collection handed to search() on its own
MaxStore == 3
\* request lines a client sends to one tool server
MaxRequests == 3
\* largest absolute value of a component, and longest list, handed to
\* _cosine_similarity on its own
MaxCoord == 1
MaxDim == 2

-----------------------------------------------------------------------------
(* Generic helpers *)

Min(a, b) == IF a < b THEN a ELSE b
Max(a, b) == IF a > b THEN a ELSE b
IsPrefix(b, p) == Len(b) <= Len(p) /\ SubSeq(p, 1, Len(b)) = b
Range(s) == {s[i] : i \in 1..Len(s)}

RECURSIVE SeqSum(_)
SeqSum(s) == IF s = <<>> THEN 0 ELSE Head(s) + SeqSum(Tail(s))

-----------------------------------------------------------------------------
(* The file system and pathlib *)

\* three of the extensions and three of the ignored names of the source: the modelled
\* tree holds one extension listed there and no ignored name
CODE_EXTENSIONS == {".py", ".md", ".json"}
DEFAULT_IGNORE_DIRS == {"node_modules", ".git", "build"}

NoPath == <<>>                       \* project_path argument None / ""
RealDir == <<"P">>                   \* the project directory
LinkDir == <<"L">>                   \* a symbolic link to RealDir
SubDir == "S"                        \* a sub-directory of the project
GoneDir == <<"X">>                   \* a path that does not exist
Dirs == {RealDir, RealDir \o <<SubDir>>}

\* the regular files that may exist, by resolved path, in rglob order
FileOrder == << <<"P", "a.py">>, <<"P", "S", "a.py">> >>
FilePaths == Range(FileOrder)

\* Path.suffix of the last component
suffix(name) == CASE name = "a.py" -> ".py"
                  [] name = "d.py" -> ".py"
                  [] name = "r.md" -> ".md"
                  [] name = "b.txt" -> ".txt"
                  [] OTHER -> ""

\* a project directory that lies under a directory named build
BuildDir == <<"build", "P">>
\* the entries that may exist below a scanned root, in rglob order
Below == << <<"a.py">>, <<"b.txt">>, <<"d.py">>, <<"r.md">>, <<"S", "a.py">>,
            <<"node_modules", "a.py">> >>
\* every path of the modelled trees, in rglob order
PathOrder == [i \in 1..Len(Below) |-> RealDir \o Below[i]]
                \o [i \in 1..Len(Below) |-> BuildDir \o Below[i]]

\* Path.resolve(): the symbolic link is replaced by its target
resolve(p) == IF p # <<>> /\ Head(p) = Head(LinkDir) THEN RealDir \o Tail(p) ELSE p

\* a faulty variant: the root is taken to exist
exists_always(p) == TRUE

\* Path.exists() of a directory path
exists(p) == resolve(p) \in Dirs

\* PurePath.relative_to is lexical: it raises ValueError unless base is a prefix
is_relative_to(p, base) == IsPrefix(base, p)
relative_to(p, base) == SubSeq(p, Len(base) + 1, Len(p))

Absent == [kind |-> "absent", lines |-> <<>>]
Directory == [kind |-> "dir", lines |-> <<>>]
Unreadable == [kind |-> "unreadable", lines |-> <<>>]
Text(l) == [kind |-> "file", lines |-> l]

\* contents a project file takes: one line, three lines, one blank line
Contents == {<<1>>, <<1, 2, 3>>, <<0>>}
\* the states each file takes: the first any content, the second one content or unreadable
StatesOf(f) == IF f = FileOrder[1] THEN {Absent} \cup {Text(l) : l \in Contents}
               ELSE {Absent, Unreadable, Text(<<1>>)}

\* hashlib.md5(bytes).hexdigest(): one digest per content (no collisions)
_file_hash(st) == <<"md5", st.lines>>

\* the paths rglob yields under root: root / (path below the resolved root)
rglob(root) ==
    LET tree == SelectSeq(PathOrder, LAMBDA f : f \in DOMAIN fs)
        under(f) == fs[f].kind # "absent" /\ Len(resolve(root)) < Len(f)
                        /\ IsPrefix(resolve(root), f)
        idx == SelectSeq([i \in 1..Len(tree) |-> i], LAMBDA i : under(tree[i]))
    IN  [i \in 1..Len(idx) |-> root \o relative_to(tree[idx[i]], resolve(root))]

\* Path.is_file(): a regular file, readable or not
is_file(p) == fs[resolve(p)].kind \in {"file", "unreadable"}

_collect_files(root, ignore) ==
    SelectSeq(rglob(root),
              LAMBDA p : /\ ~(\E k \in 1..Len(p) : p[k] \in ignore)
                         /\ is_file(p) /\ suffix(p[Len(p)]) \in CODE_EXTENSIONS)

-----------------------------------------------------------------------------
(* The chunker *)

Blank == 0

RECURSIVE lstrip(_)
lstrip(s) == IF s # <<>> /\ Head(s) = Blank THEN lstrip(Tail(s)) ELSE s

RECURSIVE rstrip(_)
rstrip(s) == IF s # <<>> /\ s[Len(s)] = Blank THEN rstrip(SubSeq(s, 1, Len(s) - 1)) ELSE s

\* a faulty variant: the joined text is taken as it is
strip_none(s) == s

\* "\n".join(chunk_lines).strip(): blank lines at both ends go
strip(s) == rstrip(lstrip(s))

\* range(start, stop, step) for step # 0 (start <= stop here, so a negative step is empty)
RECURSIVE range(_, _, _)
range(start, stop, step) ==
    IF step > 0 /\ start < stop THEN <<start>> \o range(start + step, stop, step) ELSE <<>>

\* a faulty variant: the loop steps by the chunk size, whatever the overlap
WindowStarts_sizeStep(L, size, overlap) == range(0, Max(1, L - overlap), size)

\* a faulty variant: the stop value of the loop is itself an offset
WindowStarts_inclusive(L, size, overlap) ==
    range(0, Max(1, L - overlap) + 1, size - overlap)

\* the offsets of the for loop of _chunk_file
WindowStarts(L, size, overlap) == range(0, Max(1, L - overlap), size - overlap)

\* a faulty variant: a window always has chunk_size lines, blank ones past the end
Window_padded(lines, i, size) ==
    [j \in 1..size |-> IF i + j <= Len(lines) THEN lines[i + j] ELSE Blank]

\* lines[i:i + chunk_size]
Window(lines, i, size) == SubSeq(lines, i + 1, Min(i + size, Len(lines)))

\* _chunk_file: [raised |-> a ValueError left the function, chunks |-> the list].
\* src is not a field of the program's chunk: it records the file the text came from.
_chunk_file(path, st, size, overlap, base) ==
    IF st.kind # "file" THEN [raised |-> FALSE, chunks |-> <<>>]
    ELSE IF size - overlap = 0 THEN [raised |-> TRUE, chunks |-> <<>>]
    ELSE
    LET starts == WindowStarts(Len(st.lines), size, overlap)
        kept == SelectSeq(starts, LAMBDA i : strip(Window(st.lines, i, size)) # <<>>)
    IN  IF kept # <<>> /\ ~is_relative_to(path, base)
        THEN [raised |-> TRUE, chunks |-> <<>>]
        ELSE [raised |-> FALSE,
              chunks |-> [k \in 1..Len(kept) |->
                           [text |-> strip(Window(st.lines, kept[k], size)),
                            file |-> relative_to(path, base),
                            start_line |-> kept[k] + 1,
                            end_line |-> kept[k] + Len(Window(st.lines, kept[k], size)),
                            src |-> resolve(path)]]]

-----------------------------------------------------------------------------
(* Similarity *)

\* embeddings the remote service returns
Vectors == {<<1, 0>>, <<0, 1>>}

\* sum(x * y for x, y in zip(a, b))
dot(a, b) == SeqSum([i \in 1..Min(Len(a), Len(b)) |-> a[i] * b[i]])

\* A score s stands for the real number sign(s.num) * sqrt(|s.num| / s.den), s.den > 0:
\* dot / (norm_a * norm_b) has the sign of dot and the square dot^2 / (|a|^2 |b|^2).
Score(num, den) == [num |-> num, den |-> den]
Zero == Score(0, 1)
One == Score(1, 1)
ScoreLess(s, t) == s.num * t.den < t.num * s.den
ScoreEq(s, t) == s.num * t.den = t.num * s.den

\* a faulty variant: the norms are not compared with zero before the division
_cosine_similarity_unguarded(a, b) ==
    LET d == dot(a, b)
    IN  Score((IF d < 0 THEN -1 ELSE 1) * d * d, dot(a, a) * dot(b, b))

\* a faulty variant: the dot product is not divided by the norms
_cosine_similarity_unnormalised(a, b) ==
    LET d == dot(a, b)
    IN  Score((IF d < 0 THEN -1 ELSE 1) * d * d, 1)

_cosine_similarity(a, b) ==
    LET d == dot(a, b)
        na == dot(a, a)
        nb == dot(b, b)
    IN  IF na = 0 \/ nb = 0 THEN Zero
        ELSE Score((IF d < 0 THEN -1 ELSE 1) * d * d, na * nb)

\* a faulty variant: the list is left in stored order
SortDesc_unsorted(s) == s

(* Lists of doubles of any magnitude. F(e, m) is the list m[i] * 2^(600 * e): e = 0  *)
(* for ordinary magnitudes, where the lists above are computed as written; e = -1   *)
(* for components so small that each product of two of them underflows to 0.0;      *)
(* e = 1 for components so large that each product of two non-zero ones is inf.     *)
F(e, m) == [e |-> e, m |-> m]
Scales == {-1, 0, 1}
\* the result of inf / inf
NaN == Score(0, 0)
IsNumber(s) == s.den > 0
IsZeroVec(m) == \A i \in 1..Len(m) : m[i] = 0

\* sum(x * x for x in a) ** 0.5 is 0.0: every square is zero or underflows
NormIsZero(a) == a.e = -1 \/ IsZeroVec(a.m)

\* lines 112-118 on doubles: with a norm of inf the quotient is 0.0 for a finite dot
\* product and nan for an infinite or undefined one
_cosine_similarity_double(a, b) ==
    IF a.e = 0 /\ b.e = 0 THEN _cosine_similarity(a.m, b.m)
    ELSE IF NormIsZero(a) \/ NormIsZero(b) THEN Zero
    ELSE IF /\ a.e = 1 /\ b.e = 1
            /\ \E i \in 1..Min(Len(a.m), Len(b.m)) : a.m[i] * b.m[i] # 0
         THEN NaN
         ELSE Zero

\* list.sort(key = score, reverse = True): stable, equal scores keep their order
RECURSIVE SortDesc(_)
SortDesc(s) ==
    IF s = <<>> THEN <<>>
    ELSE LET rest == SortDesc(SubSeq(s, 1, Len(s) - 1))
             x == s[Len(s)]
             ahead == SelectSeq(rest, LAMBDA y : ~ScoreLess(y.score, x.score))
             behind == SelectSeq(rest, LAMBDA y : ScoreLess(y.score, x.score))
         IN  ahead \o <<x>> \o behind

\* seq[:n]
SliceTo(s, n) == IF n >= 0 THEN SubSeq(s, 1, Min(n, Len(s)))
                 ELSE SubSeq(s, 1, Max(0, Len(s) + n))

HasEmbedding(c) == "embedding" \in DOMAIN c

\* the scoring loop and the sort of search() and ask()
Scored(chunks, q) ==
    LET with == SelectSeq(chunks, HasEmbedding)
    IN  SortDesc([i \in 1..Len(with) |->
                    [score |-> _cosine_similarity(q, with[i].embedding), chunk |-> with[i]]])

Top(chunks, q, n) == SliceTo(Scored(chunks, q), n)

-----------------------------------------------------------------------------
(* Persistence *)

NoFile == [exists |-> FALSE, data |-> <<>>]
\* a faulty variant: the file is opened for writing and nothing is dumped
_save_json_truncated(data) == [exists |-> TRUE, data |-> <<>>]
_save_json(data) == [exists |-> TRUE, data |-> data]
_load_json(file, default) == IF file.exists THEN file.data ELSE default

EmptyIndex == [k \in {} |-> <<>>]
Restrict(f, S) == [k \in (DOMAIN f) \cap S |-> f[k]]
Put(f, k, v) == [x \in (DOMAIN f) \cup {k} |-> IF x = k THEN v ELSE f[x]]
\* dict.get(key): None is a value no digest equals
None == <<"None">>
Get(f, k) == IF k \in DOMAIN f THEN f[k] ELSE None

-----------------------------------------------------------------------------
(* Processes: each runs one front-end (MCPServer.run or the CLI) and its engine *)

Procs == {"p1", "p2"}
Solo == {"p1"}

\* the configurations of the indexing runs: chunk_size, chunk_overlap
ChunkConfigs == {[size |-> 2, overlap |-> 1]}

\* the project_path arguments of index(): none, a sub-directory of the configured
\* path, the other name of the project directory, a path that does not exist
OtherName == IF project_path = RealDir THEN LinkDir ELSE RealDir
RootArgs == {NoPath, project_path \o <<SubDir>>, OtherName, GoneDir}

\* n_results of search_code
Counts == {-1, 1, 2, 3}

NoLoc == [op |-> "none", root |-> NoPath, force |-> FALSE, files |-> <<>>, fi |-> 0,
          new_chunks |-> <<>>, indexed |-> 0, skipped |-> 0, file_hash |-> None,
          todo |-> <<>>, n |-> 0, query_embedding |-> <<>>, top |-> <<>>,
          \* history of the run, read by the properties only
          chunks0 |-> <<>>, index0 |-> EmptyIndex, after |-> NoPath,
          clean |-> FALSE, calls |-> <<>>, cause |-> "none",
          summary0 |-> [exists |-> FALSE, data |-> <<>>], generated |-> "no"]
NoResult == [kind |-> "none"]

\* the engine's copies at the entry of a tool call: execute_tool constructs the
\* pipeline on first use, and __init__ loads both files
mem_index(p) == IF rag[p] THEN _index[p] ELSE _load_json(index_file, EmptyIndex)
mem_chunks(p) == IF rag[p] THEN _chunks[p] ELSE _load_json(chunks_file, <<>>)

\* nothing is on disk yet and no process has constructed its engine
InitShared ==
    /\ index_file = NoFile
    /\ chunks_file = NoFile
    /\ summary_file = NoFile
    /\ rag = [p \in Procs |-> FALSE]
    /\ pc = [p \in Procs |-> "idle"]
    /\ _index = [p \in Procs |-> EmptyIndex]
    /\ _chunks = [p \in Procs |-> <<>>]
    /\ loc = [p \in Procs |-> NoLoc]
    /\ result = [p \in Procs |-> NoResult]
    /\ settled = NoPath
    /\ dropped = {}

NoCall == [op |-> "none"]

\* the configured project path is the project directory itself
Init ==
    /\ InitShared
    /\ fs = [f \in FilePaths |-> Text(<<1>>)]
    /\ project_path = RealDir
    /\ \E c \in ChunkConfigs : _chunk_size = c.size /\ _chunk_overlap = c.overlap
    /\ fn = NoCall

\* the configured project path is a symbolic link to the project directory
InitLink ==
    /\ InitShared
    /\ fs = [f \in FilePaths |-> Text(<<1>>)]
    /\ project_path = LinkDir
    /\ \E c \in ChunkConfigs : _chunk_size = c.size /\ _chunk_overlap = c.overlap
    /\ fn = NoCall

unchanged_disk == UNCHANGED <<index_file, chunks_file, summary_file>>
unchanged_config == UNCHANGED <<project_path, _chunk_size, _chunk_overlap, fn>>
unchanged_rest == unchanged_config /\ UNCHANGED dropped

(* The world outside: files are created, modified, made unreadable, deleted.   *)
(* The engine looks at the tree in the scan (which files exist) and reads each *)
(* file once in the loop. Any change made while a run is between these points  *)
(* has the effect of the same change made before the scan or after the run,    *)
(* except one: a file found by the scan is deleted before the loop reads it.   *)
(* A process that ended with an exception reads nothing until it is started    *)
(* again, so a change after its end is the same change after its start.        *)

Quiet(p) == pc[p] = "idle"
AboutToRead(p, f) == pc[p] = "hash" /\ resolve(loc[p].files[loc[p].fi]) = f

Touch(f, st) ==
    /\ st \in StatesOf(f) /\ st # fs[f]
    /\ fs' = [fs EXCEPT ![f] = st]
    /\ settled' = NoPath
    /\ loc' = [p \in Procs |-> IF loc[p].op = "none" THEN loc[p]
                                ELSE [loc[p] EXCEPT !.clean = FALSE]]
    /\ dropped' = {c \in dropped : c.src # f}
    /\ unchanged_disk /\ unchanged_config
    /\ UNCHANGED <<rag, pc, _index, _chunks, result>>

WriteFile(f, l) == (\A p \in Procs : Quiet(p)) /\ Touch(f, Text(l))
ChmodFile(f) == (\A p \in Procs : Quiet(p)) /\ fs[f].kind = "file" /\ Touch(f, Unreadable)
DeleteFile(f) == (\A p \in Procs : Quiet(p) \/ AboutToRead(p, f)) /\ Touch(f, Absent)

(* A process starts: MCPServer() with rag = None, or a new CLI run *)
Start(p) ==
    /\ pc[p] \in {"idle", "raised"}
    /\ rag[p] \/ pc[p] = "raised"
    /\ pc' = [pc EXCEPT ![p] = "idle"]
    /\ rag' = [rag EXCEPT ![p] = FALSE]
    /\ _index' = [_index EXCEPT ![p] = EmptyIndex]
    /\ _chunks' = [_chunks EXCEPT ![p] = <<>>]
    /\ loc' = [loc EXCEPT ![p] = NoLoc]
    /\ result' = [result EXCEPT ![p] = NoResult]
    /\ UNCHANGED <<fs, settled>> /\ unchanged_disk /\ unchanged_rest

(* The front-end writes the response of the finished call and reads the next request *)
WriteResponse(p) ==
    /\ pc[p] = "done"
    /\ pc' = [pc EXCEPT ![p] = "idle"]
    /\ loc' = [loc EXCEPT ![p] = NoLoc]
    /\ result' = [result EXCEPT ![p] = NoResult]
    /\ UNCHANGED <<fs, rag, _index, _chunks, settled>>
    /\ unchanged_disk /\ unchanged_rest

-----------------------------------------------------------------------------
(* RAGPipeline.index *)

Raise(p, why) ==
    /\ pc' = [pc EXCEPT ![p] = "raised"]
    /\ loc' = [loc EXCEPT ![p] = [@ EXCEPT !.cause = why]]
    /\ result' = [result EXCEPT ![p] = NoResult]

\* lines 131-133: the entries whose key is not a current (resolved) path go
PruneIndex(idx, current_files) == Restrict(idx, current_files)

\* lines 134-137: the chunks go whose root / file does not resolve to a current path
PruneChunks(chunks, root, current_files) ==
    SelectSeq(chunks, LAMBDA c : resolve(root \o c.file) \in current_files)

\* a faulty variant: no file is ever skipped
ShouldSkip_never(force, stored, h) == FALSE

\* a faulty variant: the force flag is not looked at
ShouldSkip_unforced(force, stored, h) == stored = h

\* line 149: the file is unchanged and the run is not forced
ShouldSkip(force, stored, h) == ~force /\ stored = h

\* line 152: the chunks kept for a skipped file
Existing(chunks, rel) == SelectSeq(chunks, LAMBDA c : c.file = rel)

\* a faulty variant: a handled chunk ends the loop over the file's chunks
Remaining_none(todo) == <<>>

\* line 158: the loop over the chunks goes on with the chunks after this one
Remaining(todo) == Tail(todo)

\* the position after the file at loc.fi: the next file, or the code after the loop
AfterFile(l) == IF l.fi + 1 > Len(l.files) THEN "save_index" ELSE "hash"

\* lines 166-167: the file's digest is recorded and the file counted
FileDone(p, l, h) ==
    /\ _index' = [_index EXCEPT ![p] = Put(@, l.files[l.fi], h)]
    /\ loc' = [loc EXCEPT ![p] = [l EXCEPT !.indexed = @ + 1, !.fi = @ + 1,
                                            !.todo = <<>>, !.file_hash = None]]
    /\ pc' = [pc EXCEPT ![p] = AfterFile(l)]

\* lines 120-143: the root, the scan and the prune
index(p, arg, force) ==
    /\ pc[p] = "idle"
    /\ rag' = [rag EXCEPT ![p] = TRUE]
    /\ LET root == IF arg # NoPath THEN arg ELSE project_path
           idx0 == mem_index(p)
           ch0 == mem_chunks(p)
       IN  IF ~exists(root)
           THEN /\ _index' = [_index EXCEPT ![p] = idx0]
                /\ _chunks' = [_chunks EXCEPT ![p] = ch0]
                /\ loc' = [loc EXCEPT ![p] = [NoLoc EXCEPT !.op = "index", !.root = root,
                                                          !.force = force]]
                /\ result' = [result EXCEPT ![p] = [kind |-> "no_path"]]
                /\ pc' = [pc EXCEPT ![p] = "done"]
           ELSE LET files == _collect_files(root, DEFAULT_IGNORE_DIRS)
                    current_files == {resolve(f) : f \in Range(files)}
                IN  /\ _index' = [_index EXCEPT ![p] = PruneIndex(idx0, current_files)]
                    /\ _chunks' = [_chunks EXCEPT ![p] =
                                     PruneChunks(ch0, root, current_files)]
                    /\ loc' = [loc EXCEPT ![p] =
                                 [NoLoc EXCEPT !.op = "index", !.root = root,
                                               !.force = force, !.files = files, !.fi = 1,
                                               !.chunks0 = ch0, !.index0 = idx0,
                                               !.after = settled, !.clean = TRUE,
                                               !.summary0 = summary_file]]
                    /\ result' = [result EXCEPT ![p] = NoResult]
                    /\ pc' = [pc EXCEPT ![p] = IF files = <<>> THEN "save_index" ELSE "hash"]
    /\ UNCHANGED <<fs, settled>> /\ unchanged_disk /\ unchanged_rest

\* lines 145-157: one file of the loop is hashed, then skipped or chunked
HashFile(p) ==
    /\ pc[p] = "hash"
    /\ LET l == loc[p]
           file == l.files[l.fi]
           st == fs[resolve(file)]
           h == _file_hash(st)
           existing == Existing(_chunks[p], relative_to(file, l.root))
           r == _chunk_file(file, st, _chunk_size, _chunk_overlap, project_path)
       IN  IF st.kind # "file"
           THEN Raise(p, "read") /\ UNCHANGED _index
           ELSE IF ShouldSkip(l.force, Get(_index[p], file), h)
           THEN /\ loc' = [loc EXCEPT ![p] = [l EXCEPT !.skipped = @ + 1, !.fi = @ + 1,
                                                      !.new_chunks = @ \o existing]]
                /\ pc' = [pc EXCEPT ![p] = AfterFile(l)]
                /\ UNCHANGED <<_index, result>>
           ELSE IF r.raised
           THEN Raise(p, "relative_to") /\ UNCHANGED _index
           ELSE IF r.chunks = <<>>
           THEN FileDone(p, l, h) /\ UNCHANGED result
           ELSE /\ loc' = [loc EXCEPT ![p] = [l EXCEPT !.todo = r.chunks, !.file_hash = h]]
                /\ pc' = [pc EXCEPT ![p] = "embed"]
                /\ UNCHANGED <<_index, result>>
    /\ UNCHANGED <<fs, rag, _chunks, settled>> /\ unchanged_disk /\ unchanged_rest

WithEmbedding(c, v) ==
    [text |-> c.text, file |-> c.file, start_line |-> c.start_line,
     end_line |-> c.end_line, src |-> c.src, embedding |-> v]

\* the step after one chunk of the file was handled
AfterChunk(p, l) ==
    IF Remaining(l.todo) = <<>>
    THEN FileDone(p, l, l.file_hash)
    ELSE /\ loc' = [loc EXCEPT ![p] = [l EXCEPT !.todo = Remaining(@)]]
         /\ UNCHANGED <<_index, pc>>

\* lines 159-162: the embedding call of the next chunk answers with vector v
EmbedOk(p, v) ==
    /\ pc[p] = "embed"
    /\ LET c == WithEmbedding(Head(loc[p].todo), v)
       IN  AfterChunk(p, [loc[p] EXCEPT !.new_chunks = Append(@, c),
                                        !.calls = Append(@, [chunk |-> c, ok |-> TRUE])])
    /\ UNCHANGED <<fs, rag, _chunks, result, settled>> /\ unchanged_disk /\ unchanged_rest

\* lines 163-164: the embedding call of the next chunk fails; a warning is printed
EmbedFail(p) ==
    /\ pc[p] = "embed"
    /\ AfterChunk(p, [loc[p] EXCEPT !.calls =
                         Append(@, [chunk |-> WithEmbedding(Head(loc[p].todo), <<>>),
                                    ok |-> FALSE])])
    /\ UNCHANGED <<fs, rag, _chunks, result, settled>> /\ unchanged_disk /\ unchanged_rest

\* a faulty variant: the total is the size of the collection the run started from
IndexResult_earlierTotal(l) ==
    [kind |-> "indexed", indexed |-> l.indexed, skipped |-> l.skipped,
     total |-> Len(l.chunks0)]

\* lines 178-184: the text returned, with the three counts
IndexResult(l) ==
    [kind |-> "indexed", indexed |-> l.indexed, skipped |-> l.skipped,
     total |-> Len(l.new_chunks)]

\* lines 178-184: the counts are returned
ReturnIndex(p) ==
    /\ result' = [result EXCEPT ![p] = IndexResult(loc[p])]
    /\ pc' = [pc EXCEPT ![p] = "done"]
    /\ settled' = IF loc[p].clean THEN loc[p].root ELSE NoPath

\* a faulty variant: the new list is added to the pruned one
NewCollection_appended(chunks, new_chunks) == chunks \o new_chunks

\* line 170: `self._chunks = new_chunks`
NewCollection(chunks, new_chunks) == new_chunks

\* a faulty variant: a writer waits while another engine is between its two saves
OpensForWriting_exclusive(p) == \A q \in Procs \ {p} : pc[q] # "save_chunks"

\* line 60: open(path, "w") takes no lock and waits for no other writer
OpensForWriting(p) == TRUE

\* lines 170-171: the new list replaces the old one and index.json is overwritten
SaveIndex(p) ==
    /\ pc[p] = "save_index"
    /\ OpensForWriting(p)
    /\ _chunks' = [_chunks EXCEPT ![p] = NewCollection(@, loc[p].new_chunks)]
    /\ index_file' = _save_json(_index[p])
    /\ pc' = [pc EXCEPT ![p] = "save_chunks"]
    /\ UNCHANGED <<fs, rag, _index, loc, result, settled, chunks_file, summary_file>>
    /\ unchanged_rest

\* the chunks, without embedding, whose call of this run succeeded (ok) or failed
Called(calls, ok) ==
    {[text |-> x.chunk.text, file |-> x.chunk.file, start_line |-> x.chunk.start_line,
      end_line |-> x.chunk.end_line, src |-> x.chunk.src] :
        x \in {y \in Range(calls) : y.ok = ok}}

\* a faulty variant: every run regenerates the summary
ShouldSummarize_always(indexed) == TRUE

\* line 175: `if indexed > 0`
ShouldSummarize(indexed) == indexed > 0

\* lines 172-176: chunks.json is overwritten; the summary follows if a file was indexed
SaveChunks(p) ==
    /\ pc[p] = "save_chunks"
    /\ OpensForWriting(p)
    /\ chunks_file' = _save_json(_chunks[p])
    /\ dropped' = (dropped \ Called(loc[p].calls, TRUE)) \cup Called(loc[p].calls, FALSE)
    /\ IF ShouldSummarize(loc[p].indexed)
       THEN pc' = [pc EXCEPT ![p] = "summary"] /\ UNCHANGED <<result, settled>>
       ELSE ReturnIndex(p)
    /\ UNCHANGED <<fs, rag, _index, _chunks, loc, index_file, summary_file>>
    /\ unchanged_config

\* a faulty variant: a failed generation stores nothing
SaveSummary_onlyOnSuccess(file, ok) ==
    IF ok THEN _save_json([summary |-> "generated"]) ELSE file

\* lines 302-312: the answer, or the text of the except branch, is saved
SaveSummary(file, ok) ==
    _save_json([summary |-> IF ok THEN "generated" ELSE "Could not generate summary"])

\* _generate_summary: the generation call answers, or fails and a placeholder is stored
GenerateSummary(p, ok) ==
    /\ pc[p] = "summary"
    /\ summary_file' = SaveSummary(summary_file, ok)
    /\ ReturnIndex(p)
    /\ loc' = [loc EXCEPT ![p] = [@ EXCEPT !.generated = IF ok THEN "ok" ELSE "failed"]]
    /\ UNCHANGED <<fs, rag, _index, _chunks, index_file, chunks_file>>
    /\ unchanged_rest

-----------------------------------------------------------------------------
(* RAGPipeline.search and RAGPipeline.ask *)

\* scored[:8] of ask()
ASK_TOP == 8

\* a faulty variant: only a missing list counts as empty
EmptyCollection_never(chunks) == FALSE

\* lines 188 and 215: `if not self._chunks`
EmptyCollection(chunks) == chunks = <<>>

\* lines 186-189 and 213-216: the guard on the empty collection
Query(p, op, n) ==
    /\ pc[p] = "idle"
    /\ rag' = [rag EXCEPT ![p] = TRUE]
    /\ _index' = [_index EXCEPT ![p] = mem_index(p)]
    /\ _chunks' = [_chunks EXCEPT ![p] = mem_chunks(p)]
    /\ loc' = [loc EXCEPT ![p] = [NoLoc EXCEPT !.op = op, !.n = n]]
    /\ IF EmptyCollection(mem_chunks(p))
       THEN /\ result' = [result EXCEPT ![p] = [kind |-> "no_index"]]
            /\ pc' = [pc EXCEPT ![p] = "done"]
       ELSE /\ result' = [result EXCEPT ![p] = NoResult]
            /\ pc' = [pc EXCEPT ![p] = "query_embed"]
    /\ UNCHANGED <<fs, settled>> /\ unchanged_disk /\ unchanged_rest

search(p, n) == Query(p, "search", n)
ask(p) == Query(p, "ask", ASK_TOP)

\* lines 191-211: the query is embedded, the chunks are scored, sorted and cut
SearchEmbedOk(p, q) ==
    /\ pc[p] = "query_embed" /\ loc[p].op = "search"
    /\ LET top == Top(_chunks[p], q, loc[p].n)
       IN  /\ loc' = [loc EXCEPT ![p] = [@ EXCEPT !.query_embedding = q, !.top = top]]
           /\ result' = [result EXCEPT ![p] =
                           IF top = <<>> THEN [kind |-> "no_results"]
                           ELSE [kind |-> "results", top |-> top]]
    /\ pc' = [pc EXCEPT ![p] = "done"]
    /\ UNCHANGED <<fs, rag, _index, _chunks, settled>> /\ unchanged_disk /\ unchanged_rest

\* lines 219-225: the same retrieval in ask()
AskEmbedOk(p, q) ==
    /\ pc[p] = "query_embed" /\ loc[p].op = "ask"
    /\ loc' = [loc EXCEPT ![p] = [@ EXCEPT !.query_embedding = q,
                                            !.top = Top(_chunks[p], q, ASK_TOP)]]
    /\ pc' = [pc EXCEPT ![p] = "generate"]
    /\ UNCHANGED <<fs, rag, _index, _chunks, result, settled>>
    /\ unchanged_disk /\ unchanged_rest

\* lines 191 and 219: _get_embedding raises inside search() or ask(); nothing catches
\* it before MCPServer.run, which prints it and leaves its loop
QueryEmbedFail(p) ==
    /\ pc[p] = "query_embed"
    /\ Raise(p, "embedding")
    /\ UNCHANGED <<fs, rag, _index, _chunks, settled>> /\ unchanged_disk /\ unchanged_rest

\* lines 233-262: the prompt with the summary and the context is answered
AskGenerateOk(p) ==
    /\ pc[p] = "generate"
    /\ result' = [result EXCEPT ![p] =
                    [kind |-> "answer",
                     context |-> [i \in 1..Len(loc[p].top) |-> loc[p].top[i].chunk],
                     summary |-> _load_json(summary_file, [summary |-> ""]).summary]]
    /\ pc' = [pc EXCEPT ![p] = "done"]
    /\ UNCHANGED <<fs, rag, _index, _chunks, loc, settled>>
    /\ unchanged_disk /\ unchanged_rest

\* lines 252-261: the generation call raises
AskGenerateFail(p) ==
    /\ pc[p] = "generate"
    /\ Raise(p, "generate")
    /\ UNCHANGED <<fs, rag, _index, _chunks, settled>> /\ unchanged_disk /\ unchanged_rest

-----------------------------------------------------------------------------
(* One process at a time: MCPServer.run, or the CLI run again and again *)

World ==
    \/ \E f \in FilePaths, l \in Contents : WriteFile(f, l)
    \/ \E f \in FilePaths : DeleteFile(f)
    \/ \E f \in FilePaths : ChmodFile(f)

Engine(p) ==
    \/ Start(p)
    \/ WriteResponse(p)
    \/ \E arg \in RootArgs, force \in BOOLEAN : index(p, arg, force)
    \/ HashFile(p)
    \/ \E v \in Vectors : EmbedOk(p, v)
    \/ EmbedFail(p)
    \/ SaveIndex(p)
    \/ SaveChunks(p)
    \/ \E ok \in BOOLEAN : GenerateSummary(p, ok)
    \/ \E n \in Counts : search(p, n)
    \/ ask(p)
    \/ \E q \in Vectors : SearchEmbedOk(p, q)
    \/ \E q \in Vectors : AskEmbedOk(p, q)
    \/ QueryEmbedFail(p)
    \/ AskGenerateOk(p)
    \/ AskGenerateFail(p)

Next == World \/ \E p \in Solo : Engine(p)

Spec == Init /\ [][Next]_vars

\* the same program configured with the symbolic link as its project path
SpecLink == InitLink /\ [][Next]_vars

-----------------------------------------------------------------------------
(* Two engines on one storage root: two front-end processes, each with its own   *)
(* RAGPipeline, run index() on the configured project path with their steps      *)
(* interleaved. A file may change whenever no engine is about to read one, so    *)
(* the two runs may scan different trees.                                        *)

\* the project holds one file
InitTwo ==
    /\ InitShared
    /\ fs = [f \in FilePaths |-> IF f = FileOrder[1] THEN Text(<<1>>) ELSE Absent]
    /\ project_path = RealDir
    /\ \E c \in ChunkConfigs : _chunk_size = c.size /\ _chunk_overlap = c.overlap
    /\ fn = NoCall

\* the file is rewritten: its content gives one chunk, or two
WorldTwo ==
    \E st \in {Text(<<1>>), Text(<<1, 2, 3>>)} :
        /\ \A p \in Procs : pc[p] # "hash"
        /\ Touch(FileOrder[1], st)

\* every embedding call answers with the same vector
NextTwo ==
    \/ WorldTwo
    \/ \E p \in Procs :
         \/ Start(p)
         \/ WriteResponse(p)
         \/ index(p, NoPath, FALSE)
         \/ HashFile(p)
         \/ EmbedOk(p, <<1, 0>>)
         \/ SaveIndex(p)
         \/ SaveChunks(p)
         \/ GenerateSummary(p, TRUE)

SpecTwo == InitTwo /\ [][NextTwo]_vars

-----------------------------------------------------------------------------
(* The tool server: MCPServer.run reads request lines from stdin and writes one    *)
(* response line per request to stdout. A line is [id, kind]: the id is the line's *)
(* arrival number; the kind is the tool of a tools/call request, "initialize" for  *)
(* a request answered without the engine, or "garbage" for a line that is not      *)
(* JSON. fn holds the two pipes and the loop's locals:                             *)
(*   sent    every line the client has written, in arrival order (history)         *)
(*   pipe    the lines written and not yet read by reader.read                     *)
(*   buffer  the lines read and not yet split off                                  *)
(*   cur     the request being handled, or NoLine                                  *)
(*   parsed  the ids of the requests parsed so far, in order (history)             *)
(*   stdout  the responses written                                                 *)

LineKinds == {"index_project", "search_code", "ask_project", "initialize", "garbage"}
NoLine == [id |-> 0, kind |-> "none"]

InitServer ==
    /\ InitShared
    /\ fs = [f \in FilePaths |-> IF f = FileOrder[1] THEN Text(<<1>>) ELSE Absent]
    /\ project_path = RealDir
    /\ \E c \in ChunkConfigs : _chunk_size = c.size /\ _chunk_overlap = c.overlap
    /\ fn = [op |-> "run", sent |-> <<>>, pipe |-> <<>>, buffer |-> <<>>, cur |-> NoLine,
             parsed |-> <<>>, stdout |-> <<>>]

unchanged_engine ==
    UNCHANGED <<fs, index_file, chunks_file, summary_file, project_path, _chunk_size,
                _chunk_overlap, rag, pc, _index, _chunks, loc, result, settled, dropped>>

\* the client writes one more request line, whatever the server is doing
Arrive(kind) ==
    /\ Len(fn.sent) < MaxRequests
    /\ LET line == [id |-> Len(fn.sent) + 1, kind |-> kind]
       IN  fn' = [fn EXCEPT !.sent = Append(@, line), !.pipe = Append(@, line)]
    /\ unchanged_engine

\* lines 216-219: with no complete line left in the buffer, reader.read(4096) returns
\* some of what has arrived
ReadChunk(p, n) ==
    /\ pc[p] = "idle" /\ fn.cur = NoLine /\ fn.buffer = <<>>
    /\ n \in 1..Len(fn.pipe)
    /\ fn' = [fn EXCEPT !.buffer = SubSeq(fn.pipe, 1, n),
                         !.pipe = SubSeq(fn.pipe, n + 1, Len(fn.pipe))]
    /\ unchanged_engine

\* a faulty variant: the last line of the buffer is split off
NextLine_last(buffer) == Len(buffer)

\* line 222: `line, buffer = buffer.split("\n", 1)` takes the first line
NextLine(buffer) == 1

\* lines 221-227 and 231-232: the next line is split off and parsed; a line that is
\* not JSON is passed over
ParseLine(p) ==
    /\ pc[p] = "idle" /\ fn.cur = NoLine /\ fn.buffer # <<>>
    /\ LET i == NextLine(fn.buffer)
           line == fn.buffer[i]
           rest == SubSeq(fn.buffer, 1, i - 1) \o SubSeq(fn.buffer, i + 1, Len(fn.buffer))
       IN  fn' = IF line.kind = "garbage" THEN [fn EXCEPT !.buffer = rest]
                 ELSE [fn EXCEPT !.buffer = rest, !.cur = line,
                                 !.parsed = Append(@, line.id)]
    /\ unchanged_engine

\* handle_request lines 144-147 and execute_tool lines 163-180: a tools/call request
\* starts the engine's operation
Dispatch(p) ==
    /\ fn.cur # NoLine
    /\ \/ fn.cur.kind = "index_project" /\ index(p, NoPath, FALSE)
       \/ fn.cur.kind = "search_code" /\ search(p, 1)
       \/ fn.cur.kind = "ask_project" /\ ask(p)

\* handle_request lines 124-135 and run lines 228-229: a request that needs no engine
\* is answered
Answer(p) ==
    /\ pc[p] = "idle" /\ fn.cur.kind = "initialize"
    /\ fn' = [fn EXCEPT !.cur = NoLine,
                         !.stdout = Append(@, [id |-> fn.cur.id, kind |-> "initialize"])]
    /\ unchanged_engine

\* handle_request lines 148-155 and run lines 228-229: the operation has returned and
\* the response with the request's id is written
Respond(p) ==
    /\ pc[p] = "done" /\ fn.cur # NoLine
    /\ fn' = [fn EXCEPT !.cur = NoLine,
                         !.stdout = Append(@, [id |-> fn.cur.id, kind |-> result[p].kind])]
    /\ pc' = [pc EXCEPT ![p] = "idle"]
    /\ loc' = [loc EXCEPT ![p] = NoLoc]
    /\ result' = [result EXCEPT ![p] = NoResult]
    /\ UNCHANGED <<fs, rag, _index, _chunks, settled, dropped>>
    /\ unchanged_disk /\ UNCHANGED <<project_path, _chunk_size, _chunk_overlap>>

NextServer ==
    \/ \E kind \in LineKinds : Arrive(kind)
    \/ \E p \in Solo :
         \/ \E n \in 1..MaxRequests : ReadChunk(p, n)
         \/ ParseLine(p)
         \/ Dispatch(p)
         \/ Answer(p)
         \/ Respond(p)
         \/ HashFile(p)
         \/ \E v \in Vectors : EmbedOk(p, v)
         \/ EmbedFail(p)
         \/ SaveIndex(p)
         \/ SaveChunks(p)
         \/ \E ok \in BOOLEAN : GenerateSummary(p, ok)
         \/ \E q \in Vectors : SearchEmbedOk(p, q)
         \/ \E q \in Vectors : AskEmbedOk(p, q)
         \/ QueryEmbedFail(p)
         \/ AskGenerateOk(p)
         \/ AskGenerateFail(p)

SpecServer == InitServer /\ [][NextServer]_vars

-----------------------------------------------------------------------------
(* The chunker on its own: one file, every configuration, one call of _chunk_file *)

\* the files of L lines: line i is blank or is the text numbered i
FilesOfLength(L) == {[i \in 1..L |-> IF b[i] THEN i ELSE Blank] : b \in [1..L -> BOOLEAN]}
ChunkerFiles == UNION {FilesOfLength(L) : L \in 0..MaxLines}

\* the configuration and the file of TestChunkFile.test_chunk_file_basic
TestChunkSize == 10
TestChunkOverlap == 2
TestLines == 25
TestFile == [i \in 1..TestLines |-> i]

InitChunk ==
    /\ InitShared
    /\ project_path = RealDir
    /\ \/ /\ _chunk_size \in 1..MaxChunkSize
          /\ _chunk_overlap \in 0..MaxChunkSize
          /\ \E lines \in ChunkerFiles :
                fs = [f \in FilePaths |-> IF f = FileOrder[1] THEN Text(lines) ELSE Absent]
       \/ /\ _chunk_size = TestChunkSize
          /\ _chunk_overlap = TestChunkOverlap
          /\ fs = [f \in FilePaths |-> IF f = FileOrder[1] THEN Text(TestFile) ELSE Absent]
    /\ fn = NoCall

\* lines 75-100: the call, with the offsets and the windows of its loop
ChunkCall ==
    /\ fn = NoCall
    /\ LET lines == fs[FileOrder[1]].lines
           r == _chunk_file(FileOrder[1], fs[FileOrder[1]], _chunk_size, _chunk_overlap,
                            project_path)
           starts == WindowStarts(Len(lines), _chunk_size, _chunk_overlap)
       IN  fn' = [op |-> "_chunk_file", raised |-> r.raised, chunks |-> r.chunks,
                  starts |-> IF r.raised THEN <<>> ELSE starts,
                  windows |-> IF r.raised THEN <<>>
                              ELSE [k \in 1..Len(starts) |->
                                      Window(lines, starts[k], _chunk_size)]]
    /\ UNCHANGED <<fs, index_file, chunks_file, summary_file, project_path, _chunk_size,
                   _chunk_overlap, rag, pc, _index, _chunks, loc, result, settled, dropped>>

NextChunk == ChunkCall

SpecChunk == InitChunk /\ [][NextChunk]_vars

-----------------------------------------------------------------------------
(* The scanner on its own: one tree, one call of _collect_files on its root *)

\* what each entry below the root may be
KindsOf(e) == IF e = <<"d.py">> THEN {Absent, Directory}
              ELSE IF e = <<"a.py">> THEN {Absent, Unreadable, Text(<<1>>)}
              ELSE {Absent, Text(<<1>>)}

Trees(root) ==
    {[f \in {root \o Below[i] : i \in 1..Len(Below)} |->
        k[CHOOSE i \in 1..Len(Below) : root \o Below[i] = f]] :
     k \in {x \in [1..Len(Below) -> {Absent, Unreadable, Directory, Text(<<1>>)}] :
              \A i \in 1..Len(Below) : x[i] \in KindsOf(Below[i])}}

InitScan ==
    /\ InitShared
    /\ project_path \in {RealDir, BuildDir}
    /\ fs \in Trees(project_path)
    /\ \E c \in ChunkConfigs : _chunk_size = c.size /\ _chunk_overlap = c.overlap
    /\ fn = NoCall

\* lines 66-73: the call on the configured root with the default ignore list
ScanCall ==
    /\ fn = NoCall
    /\ fn' = [op |-> "_collect_files", root |-> project_path,
              files |-> _collect_files(project_path, DEFAULT_IGNORE_DIRS)]
    /\ UNCHANGED <<fs, index_file, chunks_file, summary_file, project_path, _chunk_size,
                   _chunk_overlap, rag, pc, _index, _chunks, loc, result, settled, dropped>>

NextScan == ScanCall

SpecScan == InitScan /\ [][NextScan]_vars

-----------------------------------------------------------------------------
(* The similarity on its own: two lists of doubles, one call *)

Mantissas == UNION {[1..d -> -MaxCoord..MaxCoord] : d \in 0..MaxDim}
Doubles == {F(e, m) : e \in Scales, m \in Mantissas}

InitCosine ==
    /\ InitShared
    /\ fs = [f \in FilePaths |-> Text(<<1>>)]
    /\ project_path = RealDir
    /\ \E c \in ChunkConfigs : _chunk_size = c.size /\ _chunk_overlap = c.overlap
    /\ \E a \in Doubles, b \in Doubles : fn = [op |-> "call", a |-> a, b |-> b]

CosineCall ==
    /\ fn.op = "call"
    /\ fn' = [op |-> "_cosine_similarity", a |-> fn.a, b |-> fn.b,
              r |-> _cosine_similarity_double(fn.a, fn.b)]
    /\ UNCHANGED <<fs, index_file, chunks_file, summary_file, project_path, _chunk_size,
                   _chunk_overlap, rag, pc, _index, _chunks, loc, result, settled, dropped>>

NextCosine == CosineCall

SpecCosine == InitCosine /\ [][NextCosine]_vars

-----------------------------------------------------------------------------
(* search() on its own: every stored collection, every query *)

\* embeddings of stored chunks, among them the null vector, two opposite vectors and
\* two parallel ones
StoredVectors == {<<1, 0>>, <<0, 1>>, <<1, 1>>, <<-1, 0>>, <<0, 0>>, <<2, 0>>}
QueryVectors == {<<1, 0>>, <<1, 1>>}

\* the i-th chunk of a stored list; chunks.json is read as it is found, and a chunk
\* written there without an "embedding" key is loaded like any other
StoredChunk(i, e) ==
    LET c == [text |-> <<i>>, file |-> relative_to(FileOrder[1], RealDir),
              start_line |-> i, end_line |-> i, src |-> FileOrder[1]]
    IN  IF e = None THEN c ELSE WithEmbedding(c, e)

StoresOfLength(k) ==
    {[i \in 1..k |-> StoredChunk(i, es[i])] : es \in [1..k -> StoredVectors \cup {None}]}
Stores == UNION {StoresOfLength(k) : k \in 1..MaxStore}

InitQuery ==
    /\ fs = [f \in FilePaths |-> IF f = FileOrder[1] THEN Text(<<1>>) ELSE Absent]
    /\ index_file = _save_json(Put(EmptyIndex, FileOrder[1], _file_hash(Text(<<1>>))))
    /\ \E store \in Stores : chunks_file = _save_json(store)
    /\ summary_file = NoFile
    /\ rag = [p \in Procs |-> FALSE]
    /\ pc = [p \in Procs |-> "idle"]
    /\ _index = [p \in Procs |-> EmptyIndex]
    /\ _chunks = [p \in Procs |-> <<>>]
    /\ loc = [p \in Procs |-> NoLoc]
    /\ result = [p \in Procs |-> NoResult]
    /\ settled = NoPath
    /\ dropped = {}
    /\ project_path = RealDir
    /\ \E c \in ChunkConfigs : _chunk_size = c.size /\ _chunk_overlap = c.overlap
    /\ fn = NoCall

NextQuery ==
    \E p \in Solo :
        \/ Start(p)
        \/ WriteResponse(p)
        \/ \E n \in Counts : search(p, n)
        \/ \E q \in QueryVectors : SearchEmbedOk(p, q)
        \/ QueryEmbedFail(p)

SpecQuery == InitQuery /\ [][NextQuery]_vars

-----------------------------------------------------------------------------
(* Properties of index() *)

\* an index() call has returned its counts and the response is not yet written
Completed(p) == pc[p] = "done" /\ loc[p].op = "index" /\ result[p].kind = "indexed"

\* the files the persisted mapping tracks
Tracked == {resolve(k) : k \in DOMAIN index_file.data}

\* the stored chunks cut from file f
ChunksFrom(chunks, f) == SelectSeq(chunks, LAMBDA c : c.src = f)

\* a chunk as the chunker made it, before the embedding is attached
Bare(c) == [text |-> c.text, file |-> c.file, start_line |-> c.start_line,
            end_line |-> c.end_line, src |-> c.src]

\* the chunks whose embedding call succeeded, in call order
Successes(calls) ==
    LET good == SelectSeq(calls, LAMBDA x : x.ok)
    IN  [i \in 1..Len(good) |-> good[i].chunk]

\* what the chunker makes of a file as it is now
ChunksNow(file) ==
    _chunk_file(file, fs[resolve(file)], _chunk_size, _chunk_overlap, project_path).chunks

RECURSIVE ChunksOfAll(_)
ChunksOfAll(files) ==
    IF files = <<>> THEN <<>> ELSE ChunksNow(Head(files)) \o ChunksOfAll(Tail(files))

\* C1: a second index(force = false) on the same root, with no file created, modified
\* or deleted since the first run began, leaves the stored chunk collection as it was
\* (same chunks, same order) and reports every discovered file skipped, none indexed.
C1_RerunKeepsCollection ==
    \A p \in Procs :
        (Completed(p) /\ ~loc[p].force /\ loc[p].clean /\ loc[p].after = loc[p].root)
        => /\ chunks_file.data = loc[p].chunks0
           /\ _chunks[p] = loc[p].chunks0
           /\ result[p].skipped = Len(loc[p].files)
           /\ result[p].indexed = 0

\* C2: after a completed index(), a previously indexed file that was removed has no
\* entry and no chunk in the persisted state, and each file the scan still finds,
\* unmodified, keeps its entry and its chunks.
C2_RemovedFileLeavesNoTrace ==
    \A p \in Procs : \A f \in FilePaths :
        (/\ Completed(p) /\ loc[p].clean /\ ~loc[p].force
         /\ fs[f].kind = "absent"
         /\ \E k \in DOMAIN loc[p].index0 : resolve(k) = f)
        => /\ f \notin Tracked
           /\ ChunksFrom(chunks_file.data, f) = <<>>
           /\ \A k \in DOMAIN loc[p].index0 :
                (/\ k \in Range(loc[p].files)
                 /\ fs[resolve(k)].kind = "file"
                 /\ loc[p].index0[k] = _file_hash(fs[resolve(k)]))
                => /\ resolve(k) \in Tracked
                   /\ ChunksFrom(chunks_file.data, resolve(k))
                        = ChunksFrom(loc[p].chunks0, resolve(k))

\* C3: after every completed index(), every chunk of the persisted collection was cut
\* from a file that has an entry in the persisted path -> hash mapping.
C3_EveryChunkIsTracked ==
    \A p \in Procs :
        Completed(p) => \A i \in 1..Len(chunks_file.data) : chunks_file.data[i].src \in Tracked

\* C4: a completed index(force = true) skips no file, makes one embedding call for
\* every chunk of every discovered file, and stores exactly the chunks of this run
\* whose call succeeded: no chunk of the earlier collection is kept beside or instead.
C4_ForceReembedsAll ==
    \A p \in Procs :
        (Completed(p) /\ loc[p].force)
        => /\ result[p].skipped = 0
           /\ result[p].indexed = Len(loc[p].files)
           /\ chunks_file.data = Successes(loc[p].calls)
           /\ _chunks[p] = Successes(loc[p].calls)
           /\ loc[p].clean =>
                [i \in 1..Len(loc[p].calls) |-> Bare(loc[p].calls[i].chunk)]
                    = ChunksOfAll(loc[p].files)

\* a forced run has replaced the stored chunk of an unmodified file by a new one with
\* another embedding
C4_Witness ==
    \E p \in Procs : \E k \in Range(loc[p].files) :
        /\ Completed(p) /\ loc[p].force /\ loc[p].clean
        /\ Get(loc[p].index0, k) = _file_hash(fs[resolve(k)])
        /\ \E c \in Range(loc[p].chunks0) : \E d \in Range(chunks_file.data) :
             /\ c.src = resolve(k) /\ Bare(c) = Bare(d) /\ c.embedding # d.embedding
             /\ c \notin Range(chunks_file.data)

\* C5: when an embedding call fails during index(), that chunk is not stored, every
\* chunk of the run whose call succeeded is stored, every chunk of a file being indexed
\* still gets its call, the run is not ended by the failure, and both structures are
\* persisted as the engine holds them.
C5_FailedChunkOnlyIsDropped ==
    \A p \in Procs :
        /\ (pc[p] = "raised" /\ loc[p].op = "index") => loc[p].cause \in {"read", "relative_to"}
        /\ Completed(p)
           => /\ \A i \in 1..Len(loc[p].calls) :
                    LET x == loc[p].calls[i]
                    IN  IF x.ok THEN x.chunk \in Range(chunks_file.data)
                        ELSE ~\E d \in Range(chunks_file.data) :
                                d.src = x.chunk.src /\ d.start_line = x.chunk.start_line
              /\ index_file = _save_json(_index[p])
              /\ chunks_file = _save_json(_chunks[p])
              /\ loc[p].clean =>
                    \A k \in Range(loc[p].files) :
                        LET made == SelectSeq(loc[p].calls,
                                              LAMBDA x : x.chunk.src = resolve(k))
                        IN  \/ made = <<>>
                            \/ [i \in 1..Len(made) |-> Bare(made[i].chunk)] = ChunksNow(k)

\* a run has completed in which one chunk of a file failed to embed and another chunk
\* of the same file was embedded and stored
C5_Witness ==
    \E p \in Procs : \E i, j \in 1..Len(loc[p].calls) :
        /\ Completed(p)
        /\ ~loc[p].calls[i].ok /\ loc[p].calls[j].ok
        /\ loc[p].calls[i].chunk.src = loc[p].calls[j].chunk.src
        /\ loc[p].calls[j].chunk \in Range(chunks_file.data)

\* C6: a discovered file that cannot be read (unreadable, or deleted after the scan)
\* does not end index(): no exception leaves the call because of it.
C6_UnreadableFileDoesNotAbort ==
    \A p \in Procs : ~(pc[p] = "raised" /\ loc[p].op = "index" /\ loc[p].cause = "read")

\* C13: every chunk index(root) cuts has `file` equal to its source file's path
\* relative to the indexed root, so that root / file resolves to the source file, also
\* when root is passed explicitly and differs from the configured project path; the
\* run never fails to form that relative path.
C13_FileIsRelativeToRoot ==
    \A p \in Procs :
        loc[p].op = "index"
        => /\ ~(pc[p] = "raised" /\ loc[p].cause = "relative_to")
           /\ \A x \in Range(loc[p].calls) :
                resolve(loc[p].root \o x.chunk.file) = x.chunk.src

\* C14: a completed index() has regenerated the summary exactly when it indexed at
\* least one file; a run that indexed none leaves the stored summary as it was.
C14_SummaryOnlyWhenIndexed ==
    \A p \in Procs :
        Completed(p)
        => /\ (loc[p].generated # "no") <=> (result[p].indexed > 0)
           /\ result[p].indexed = 0 => summary_file = loc[p].summary0

\* a run that skipped every discovered file has completed and the summary stored by
\* an earlier run is still there
C14_Witness ==
    \E p \in Procs :
        /\ Completed(p) /\ result[p].indexed = 0 /\ result[p].skipped >= 1
        /\ loc[p].generated = "no"
        /\ summary_file.exists /\ summary_file = loc[p].summary0

\* C15: when the generation call fails while index() regenerates the summary, index()
\* still returns its counts, the hash mapping and the chunk collection are persisted
\* before the call is made, and the summary store holds the placeholder text.
C15_SummaryFailureIsStored ==
    \A p \in Procs :
        /\ pc[p] = "summary"
           => index_file = _save_json(_index[p]) /\ chunks_file = _save_json(_chunks[p])
        /\ (loc[p].op = "index" /\ loc[p].generated = "failed")
           => /\ Completed(p)
              /\ index_file = _save_json(_index[p])
              /\ chunks_file = _save_json(_chunks[p])
              /\ summary_file.exists
              /\ summary_file.data.summary = "Could not generate summary"

\* a first run has completed although its generation call failed: the summary file,
\* absent before, holds the placeholder
C15_Witness ==
    \E p \in Procs :
        /\ Completed(p) /\ loc[p].generated = "failed"
        /\ ~loc[p].summary0.exists
        /\ summary_file.exists
        /\ Len(chunks_file.data) >= 1

\* C17: a completed index() reports counts with indexed + skipped = number of files
\* the scan discovered, and a total equal to the size of the persisted collection.
C17_CountsAddUp ==
    \A p \in Procs :
        Completed(p)
        => /\ result[p].indexed + result[p].skipped = Len(loc[p].files)
           /\ result[p].total = Len(chunks_file.data)

\* a run has completed that indexed one file, skipped another and changed the size of
\* the collection
C17_Witness ==
    \E p \in Procs :
        /\ Completed(p) /\ result[p].indexed = 1 /\ result[p].skipped = 1
        /\ result[p].total >= 2
        /\ result[p].total # Len(loc[p].chunks0)

\* C21: after a completed index(), the path -> hash mapping holds no entry for a
\* discovered file that yielded no chunk content (an empty or whitespace-only file).
C21_NoEntryWithoutContent ==
    \A p \in Procs :
        (Completed(p) /\ loc[p].clean)
        => \A k \in Range(loc[p].files) :
             (fs[resolve(k)].kind = "file" /\ strip(fs[resolve(k)].lines) = <<>>)
             => /\ k \notin DOMAIN index_file.data
                /\ k \notin DOMAIN _index[p]

C24_PersistedEqualsMemory ==
    \A p \in Procs :
        Completed(p)
        => /\ index_file.exists /\ index_file.data = _index[p]
           /\ chunks_file.exists /\ chunks_file.data = _chunks[p]
           /\ \A q \in Procs :
                ~rag[q] => mem_index(q) = _index[p] /\ mem_chunks(q) = _chunks[p]

\* a run has completed with a tracked file and a stored chunk, and an engine not yet
\* constructed would load both
C24_Witness ==
    \E p \in Procs : \E q \in Procs :
        /\ Completed(p) /\ ~rag[q]
        /\ DOMAIN _index[p] # {} /\ _chunks[p] # <<>>
        /\ mem_index(q) = _index[p] /\ mem_chunks(q) = _chunks[p]

\* C27 as stated: a chunk dropped because its embedding call failed stays missing:
\* the file's hash is recorded although the chunk failed, and every later
\* index(force = false) skips the file while its content is unchanged; only a content
\* change or force = true gets the chunk embedded again.
C27_DroppedChunkStaysMissing ==
    /\ \A c \in dropped : \A d \in Range(chunks_file.data) : Bare(d) # c
    /\ \A p \in Procs :
         (pc[p] = "embed" /\ ~loc[p].force)
         => \A c \in Range(loc[p].todo) : Bare(c) \notin dropped

\* C27 amended: the file's hash is recorded although a chunk of it failed; the dropped
\* chunk stays out of the stored collection, and a later index(force = false) embeds
\* it again, the file's content unchanged, only when the mapping no longer holds the
\* file's entry (a run on a root that does not contain the file has pruned it).
C27_DroppedUntilEntryIsGone ==
    /\ \A c \in dropped : \A d \in Range(chunks_file.data) : Bare(d) # c
    /\ \A p \in Procs :
         /\ (pc[p] = "embed" /\ ~loc[p].force)
            => \A c \in Range(loc[p].todo) :
                 Bare(c) \in dropped
                 => loc[p].files[loc[p].fi] \notin DOMAIN _index[p]
         /\ (Completed(p) /\ loc[p].clean)
            => \A x \in Range(loc[p].calls) :
                 \E k \in Range(loc[p].files) :
                    /\ resolve(k) = x.chunk.src
                    /\ Get(index_file.data, k) = _file_hash(fs[resolve(k)])

\* a run without force has completed that found, recorded and unchanged, a file one of
\* whose chunks an earlier run dropped: it made no embedding call for the file and
\* the chunk is still missing
C27_Witness ==
    \E p \in Procs : \E c \in dropped : \E k \in Range(loc[p].files) :
        /\ Completed(p) /\ ~loc[p].force /\ loc[p].clean
        /\ resolve(k) = c.src
        /\ Get(loc[p].index0, k) = _file_hash(fs[resolve(k)])
        /\ ~\E x \in Range(loc[p].calls) : x.chunk.src = c.src
        /\ c \in Range(ChunksNow(k))
        /\ \A d \in Range(chunks_file.data) : Bare(d) # c
        /\ result[p].skipped >= 1

\* C28: index() called with a root path that does not exist returns the 'Path does
\* not exist' message and changes nothing: the in-memory and the persisted hash
\* mapping, chunk collection and summary are left as they were, and no remote call
\* is made.
C28_MissingRootChangesNothing ==
    [][\A p \in Procs :
         (pc[p] = "idle" /\ loc'[p].op = "index" /\ resolve(loc'[p].root) \notin Dirs)
         => /\ pc'[p] = "done" /\ result'[p] = [kind |-> "no_path"]
            /\ index_file' = index_file /\ chunks_file' = chunks_file
            /\ summary_file' = summary_file
            /\ _index'[p] = mem_index(p) /\ _chunks'[p] = mem_chunks(p)
            /\ loc'[p].calls = <<>> /\ loc'[p].generated = "no"]_vars

\* index() on a missing root has returned its message while the store holds a tracked
\* file, a chunk and a summary, all as the engine holds them
C28_Witness ==
    \E p \in Procs :
        /\ pc[p] = "done" /\ loc[p].op = "index" /\ result[p].kind = "no_path"
        /\ DOMAIN index_file.data # {} /\ index_file.data = _index[p]
        /\ chunks_file.data # <<>> /\ chunks_file.data = _chunks[p]
        /\ summary_file.exists

\* C22: the prune step of index() removes a path -> hash entry or a chunk only when
\* its file is absent from the current scan: the entry and the chunks of a file that
\* is still present are never pruned, for any root, also one that is not
\* symlink-normalized.
C22_PruneOnlyAbsent ==
    [][\A p \in Procs :
         (pc[p] = "idle" /\ pc'[p] \in {"hash", "save_index"} /\ loc'[p].op = "index")
         => LET scanned == {resolve(f) : f \in Range(loc'[p].files)}
            IN  /\ \A k \in DOMAIN loc'[p].index0 :
                     resolve(k) \in scanned => k \in DOMAIN _index'[p]
                /\ \A c \in Range(loc'[p].chunks0) :
                     c.src \in scanned => c \in Range(_chunks'[p])]_vars

-----------------------------------------------------------------------------
(* Properties of search() and ask() *)

\* C7: a failure of the query's embedding call never leaves search() or ask() as an
\* exception that ends the front-end's loop.
C7_QueryFailureIsReturned ==
    \A p \in Procs :
        ~(pc[p] = "raised" /\ loc[p].op \in {"search", "ask"} /\ loc[p].cause = "embedding")

\* C8: search() and ask() on an empty chunk collection return the "No index found"
\* message at once: no remote call is made and nothing is raised.
C8_EmptyCollectionGivesNoIndex ==
    \A p \in Procs :
        (loc[p].op \in {"search", "ask"} /\ _chunks[p] = <<>>)
        => pc[p] = "done" /\ result[p].kind = "no_index"

\* ask() has answered "No index found" after an index() that tracked a file and
\* stored no chunk
C8_Witness ==
    \E p \in Procs :
        /\ pc[p] = "done" /\ loc[p].op = "ask" /\ result[p].kind = "no_index"
        /\ chunks_file.exists /\ chunks_file.data = <<>>
        /\ DOMAIN index_file.data # {}

\* the positions of the stored chunks that have an embedding
Embedded(chunks) == {i \in 1..Len(chunks) : HasEmbedding(chunks[i])}

\* C9: for n >= 1 and a non-empty collection, search(query, n) returns min(n, E)
\* results, E the number of stored chunks with an embedding; the results are distinct
\* stored chunks with their cosine scores, in non-increasing score order; every chunk
\* left out scores no higher than any returned one; no chunk without an embedding is
\* returned, and the call ends normally.
C9_SearchReturnsTopN ==
    \A p \in Procs :
        (pc[p] = "done" /\ loc[p].op = "search" /\ loc[p].n >= 1 /\ _chunks[p] # <<>>)
        => LET top == loc[p].top
               E == Embedded(_chunks[p])
               score(i) == _cosine_similarity(loc[p].query_embedding, _chunks[p][i].embedding)
           IN  /\ result[p] = IF top = <<>> THEN [kind |-> "no_results"]
                              ELSE [kind |-> "results", top |-> top]
               /\ Len(top) = Min(loc[p].n, Cardinality(E))
               /\ \A i, j \in 1..Len(top) : i < j => ~ScoreLess(top[i].score, top[j].score)
               /\ \E at \in [1..Len(top) -> E] :
                    /\ \A i, j \in 1..Len(top) : i # j => at[i] # at[j]
                    /\ \A i \in 1..Len(top) : /\ top[i].chunk = _chunks[p][at[i]]
                                              /\ top[i].score = score(at[i])
                    /\ \A e \in E \ Range(at) :
                         \A i \in 1..Len(top) : ~ScoreLess(top[i].score, score(e))

\* search(query, 1) has returned one result from a collection whose first chunk has no
\* embedding and whose other chunks score differently, the best of them stored last
C9_Witness ==
    \E p \in Procs :
        /\ pc[p] = "done" /\ loc[p].op = "search" /\ loc[p].n = 1
        /\ result[p].kind = "results" /\ Len(result[p].top) = 1
        /\ Len(_chunks[p]) >= 3
        /\ ~HasEmbedding(_chunks[p][1])
        /\ Cardinality(Embedded(_chunks[p])) = Len(_chunks[p]) - 1
        /\ result[p].top[1].chunk = _chunks[p][Len(_chunks[p])]
        /\ \A i \in Embedded(_chunks[p]) \ {Len(_chunks[p])} :
             ScoreLess(_cosine_similarity(loc[p].query_embedding, _chunks[p][i].embedding),
                       result[p].top[1].score)

\* the stored chunks whose embedding scores 1.0 against the query
Perfect(chunks, q) ==
    {j \in Embedded(chunks) : ScoreEq(_cosine_similarity(q, chunks[j].embedding), One)}

\* a search for n >= 1 results has ended and chunk i holds the query's non-zero embedding
IdenticalStored(p, i) ==
    /\ pc[p] = "done" /\ loc[p].op = "search" /\ loc[p].n >= 1
    /\ i \in Embedded(_chunks[p])
    /\ _chunks[p][i].embedding = loc[p].query_embedding
    /\ dot(loc[p].query_embedding, loc[p].query_embedding) # 0

-----------------------------------------------------------------------------
(* Properties of the similarity *)

CosineCalled == fn.op = "_cosine_similarity"

\* C19: the similarity is exactly 0.0, and neither an error nor an undefined value,
\* whenever the norm of either list is zero, also when both are.
C19_ZeroNormGivesZero ==
    (CosineCalled /\ (NormIsZero(fn.a) \/ NormIsZero(fn.b)))
    => IsNumber(fn.r) /\ fn.r = Zero

\* the similarity of two null vectors of two components was computed
C19_Witness ==
    /\ CosineCalled
    /\ fn.a = F(0, <<0, 0>>) /\ fn.b = F(0, <<0, 0>>)
    /\ fn.r = Zero

\* C20: the similarity of a non-zero vector with itself is 1.0, with its negation
\* -1.0, and of two orthogonal non-zero vectors 0.0.
C20_SelfOppositeOrthogonal ==
    (CosineCalled /\ ~IsZeroVec(fn.a.m) /\ ~IsZeroVec(fn.b.m))
    => /\ fn.b = fn.a => IsNumber(fn.r) /\ ScoreEq(fn.r, One)
       /\ fn.b = F(fn.a.e, [i \in 1..Len(fn.a.m) |-> -fn.a.m[i]])
            => IsNumber(fn.r) /\ ScoreEq(fn.r, Score(-1, 1))
       /\ (Len(fn.a.m) = Len(fn.b.m) /\ dot(fn.a.m, fn.b.m) = 0)
            => IsNumber(fn.r) /\ ScoreEq(fn.r, Zero)

-----------------------------------------------------------------------------
(* Properties of the scanner *)

\* the regular files under the root with an allowed extension that lie in no ignored
\* directory under the root
Wanted(root, ignore) ==
    {root \o Below[i] : i \in {j \in 1..Len(Below) :
        /\ is_file(root \o Below[j])
        /\ suffix(Below[j][Len(Below[j])]) \in CODE_EXTENSIONS
        /\ \A k \in 1..Len(Below[j]) : Below[j][k] \notin ignore}}

\* C18: for any root the scanner returns exactly the regular files under the root
\* whose extension is allowed and that lie in no ignored directory under the root:
\* none inside an ignored directory, and every allowed file outside them.
C18_ScanReturnsWanted ==
    fn # NoCall
    => /\ Range(fn.files) = Wanted(fn.root, DEFAULT_IGNORE_DIRS)
       /\ Len(fn.files) = Cardinality(Range(fn.files))

-----------------------------------------------------------------------------
(* Properties of the chunker *)

\* the offsets 0, step, 2 * step, ... below or at the bound
Multiples(step, bound) == {k * step : k \in 0..bound} \cap 0..bound

\* lines offset+1 .. min(offset+S, L) of the file
LinesFrom(lines, offset, S) ==
    [j \in 1..(Min(offset + S, Len(lines)) - offset) |-> lines[offset + j]]

\* the windows are the lines the claim names, and the chunks are the windows that
\* hold a non-blank line
WindowsAsClaimed(offsets) ==
    LET lines == fs[FileOrder[1]].lines
    IN  /\ ~fn.raised
        /\ Range(fn.starts) = offsets
        /\ Len(fn.starts) = Cardinality(offsets)
        /\ Len(fn.windows) = Len(fn.starts)
        /\ \A k \in 1..Len(fn.starts) :
             fn.windows[k] = LinesFrom(lines, fn.starts[k], _chunk_size)
        /\ {c.start_line - 1 : c \in Range(fn.chunks)}
             = {i \in offsets : \E x \in Range(LinesFrom(lines, i, _chunk_size)) : x # Blank}
        /\ \A c \in Range(fn.chunks) :
             c.end_line = Min(c.start_line - 1 + _chunk_size, Len(lines))

ChunkerCalled == fn # NoCall /\ 0 <= _chunk_overlap /\ _chunk_overlap < _chunk_size

\* C10 as stated: for 0 <= O < S the chunker attempts one window at every offset
\* 0, step, 2 * step, ... not exceeding max(1, L - O), that bound included, and at no
\* other; each window holds the lines offset+1 .. min(offset+S, L).
C10_WindowsUpToBound ==
    ChunkerCalled
    => WindowsAsClaimed(Multiples(_chunk_size - _chunk_overlap,
                                  Max(1, Len(fs[FileOrder[1]].lines) - _chunk_overlap)))

\* C10 amended: for 0 <= O < S the chunker attempts one window at every offset
\* 0, step, 2 * step, ... strictly below max(1, L - O), and at no other: an offset
\* equal to the bound is not a window start; each window holds the lines
\* offset+1 .. min(offset+S, L).
C10_WindowsBelowBound ==
    ChunkerCalled
    => WindowsAsClaimed(Multiples(_chunk_size - _chunk_overlap,
                                  Max(1, Len(fs[FileOrder[1]].lines) - _chunk_overlap) - 1))

\* the chunker was called on a file where the bound L - O is a multiple of the step,
\* and made several windows
C10_Witness ==
    /\ ChunkerCalled
    /\ Len(fn.starts) >= 2
    /\ Len(fs[FileOrder[1]].lines) - _chunk_overlap >= 1
    /\ (Len(fs[FileOrder[1]].lines) - _chunk_overlap) % (_chunk_size - _chunk_overlap) = 0
    /\ Len(fn.chunks) >= 1

\* the line numbers a chunk spans
Span(c) == c.start_line..c.end_line

\* C11: for a file of L >= 1 non-blank lines and 0 <= O < S the emitted chunks cover
\* every line 1..L and each two consecutive chunks share exactly O lines; for L = 25,
\* S = 10, O = 2 the chunks are [1,10], [9,18], [17,25].
C11_ChunksCoverWithOverlap ==
    LET lines == fs[FileOrder[1]].lines
        ch == fn.chunks
    IN  (ChunkerCalled /\ Len(lines) >= 1 /\ Blank \notin Range(lines))
        => /\ ~fn.raised
           /\ \A n \in 1..Len(lines) : \E k \in 1..Len(ch) : n \in Span(ch[k])
           /\ \A k \in 1..(Len(ch) - 1) :
                /\ ch[k].start_line < ch[k + 1].start_line
                /\ Cardinality(Span(ch[k]) \cap Span(ch[k + 1])) = _chunk_overlap
           /\ (lines = TestFile /\ _chunk_size = TestChunkSize
                                /\ _chunk_overlap = TestChunkOverlap)
                => [k \in 1..Len(ch) |-> <<ch[k].start_line, ch[k].end_line>>]
                     = << <<1, 10>>, <<9, 18>>, <<17, 25>> >>

\* the chunker was called on the 25-line file of the test with S = 10, O = 2 and made
\* three chunks
C11_Witness ==
    /\ ChunkerCalled
    /\ fs[FileOrder[1]].lines = TestFile
    /\ _chunk_size = TestChunkSize /\ _chunk_overlap = TestChunkOverlap
    /\ Len(fn.chunks) = 3

\* C12: every emitted chunk has 1 <= start_line <= end_line <= L, and end_line is the
\* number of the last line its window holds, also when the window is a short trailing
\* one that asked for more lines than were left.
C12_LineNumbersWithinFile ==
    LET lines == fs[FileOrder[1]].lines
    IN  fn # NoCall
        => \A c \in Range(fn.chunks) :
             /\ 1 <= c.start_line /\ c.start_line <= c.end_line
             /\ c.end_line <= Len(lines)
             /\ \E k \in 1..Len(fn.starts) :
                  /\ fn.starts[k] = c.start_line - 1
                  /\ c.end_line = fn.starts[k] + Len(fn.windows[k])
                  /\ fn.windows[k] = [j \in 1..(c.end_line - c.start_line + 1) |->
                                        lines[c.start_line - 1 + j]]

\* the chunker emitted a chunk for a trailing window shorter than the chunk size
C12_Witness ==
    /\ fn # NoCall
    /\ \E c \in Range(fn.chunks) :
         /\ c.end_line = Len(fs[FileOrder[1]].lines)
         /\ c.end_line < c.start_line - 1 + _chunk_size
         /\ c.start_line > 1

\* the window holds no line, or blank lines only
AllBlank(w) == \A x \in Range(w) : x = Blank

\* C25: the chunker never emits a chunk whose text is empty after stripping: a window
\* made only of blank lines is dropped, and an empty file yields an empty sequence.
C25_NoEmptyChunk ==
    /\ fn # NoCall => \A c \in Range(fn.chunks) : ~AllBlank(c.text)
    /\ ChunkerCalled
       => /\ ~fn.raised
          /\ \A k \in 1..Len(fn.starts) :
               AllBlank(fn.windows[k])
               <=> ~\E c \in Range(fn.chunks) : c.start_line = fn.starts[k] + 1
          /\ fs[FileOrder[1]].lines = <<>> => fn.chunks = <<>>

\* the chunker dropped a window of blank lines that lies between two windows it
\* emitted
C25_Witness ==
    /\ ChunkerCalled
    /\ \E k \in 2..(Len(fn.starts) - 1) :
         /\ fn.windows[k] # <<>> /\ AllBlank(fn.windows[k])
         /\ \E c, d \in Range(fn.chunks) :
              c.start_line <= fn.starts[k] /\ d.start_line > fn.starts[k] + 1

-----------------------------------------------------------------------------
(* Properties of two engines on one storage root *)

\* C26: with two engines running index() on one storage root, their steps
\* interleaved, nothing orders the saves of one against the saves of the other: while
\* one engine is between its two overwrites the other can make either of its own, and
\* each overwrite replaces one whole file by the writer's copy and leaves the other
\* file alone. (The torn state this allows is C26_Witness.)
C26_SavesInterleave ==
    /\ \A p \in Procs : \A q \in Procs \ {p} :
         pc[p] = "save_chunks"
         => /\ pc[q] = "save_index" => ENABLED SaveIndex(q)
            /\ pc[q] = "save_chunks" => ENABLED SaveChunks(q)
    /\ \A p \in Procs :
         /\ pc[p] = "save_index"
            => ENABLED (SaveIndex(p) /\ index_file' = _save_json(_index[p])
                                     /\ chunks_file' = chunks_file)
         /\ pc[p] = "save_chunks"
            => ENABLED (SaveChunks(p) /\ chunks_file' = _save_json(_chunks[p])
                                      /\ index_file' = index_file)

\* both engines have completed index(), and the persisted state is torn: the hash
\* mapping is the one engine p saved, the chunk collection the one engine q saved,
\* neither engine holds that pair (p's chunks, saved earlier, are lost), and the
\* stored chunks are not those of the content the stored hash stands for
C26_Witness ==
    \E p \in Procs : \E q \in Procs \ {p} :
        /\ Completed(p) /\ Completed(q)
        /\ index_file.data = _index[p] /\ index_file.data # _index[q]
        /\ chunks_file.data = _chunks[q] /\ chunks_file.data # _chunks[p]
        /\ \E k \in DOMAIN index_file.data : \E st \in {Text(<<1>>), Text(<<1, 2, 3>>)} :
             /\ index_file.data[k] = _file_hash(st)
             /\ [i \in 1..Len(chunks_file.data) |-> Bare(chunks_file.data[i])]
                  # _chunk_file(k, st, _chunk_size, _chunk_overlap, project_path).chunks

-----------------------------------------------------------------------------
(* Properties of the tool server *)

\* the kinds of result each kind of request is answered with
AnswersOf(kind) ==
    CASE kind = "index_project" -> {"indexed", "no_path"}
      [] kind = "search_code" -> {"no_index", "no_results", "results"}
      [] kind = "ask_project" -> {"no_index", "answer"}
      [] kind = "initialize" -> {"initialize"}
      [] OTHER -> {}

\* the engine operation a tools/call request triggers
OpOf(kind) ==
    CASE kind = "index_project" -> "index"
      [] kind = "search_code" -> "search"
      [] kind = "ask_project" -> "ask"
      [] OTHER -> "none"

====
